---------------------------- MODULE Spec2Model ----------------------------
(***************************************************************************)
(* State-machine model of cadquery's assembly exporters                    *)
(* (cadquery/occ_impl/exporters/assembly.py and png.py).                   *)
(*                                                                         *)
(* The process state is what survives an export call: the root transform   *)
(* of the assembly, the kernel's Interface_Static settings and the         *)
(* renderer's vtkGraphicsFactory flags.  `call` holds the arguments of the *)
(* last export call and `result` what that call produced.                  *)
(*                                                                         *)
(* Units: lengths are integers, colour channels are hundredths (0.1 = 10), *)
(* angles in radians are counted in quarter turns (pi/2 = 1), angles in    *)
(* degrees are integers.  A path is a sequence of one-character strings.   *)
(***************************************************************************)
EXTENDS Integers, Sequences, FiniteSets, TLC

VARIABLES assy_loc, static_vals, graphics_factory, call, result

vars == <<assy_loc, static_vals, graphics_factory, call, result>>

\* ------------------------------------------------------------------ bounds
MaxPathLen == 6
MaxLeaves == 3

\* ------------------------------------------------------------ path strings
Chars == {".", "/", "g", "l", "t", "f"}

Str(n) == UNION {[1..k -> Chars] : k \in 1..n}

Paths == Str(MaxPathLen)

\* s[i:] of Python (0-based i), and s[:i]
DropFirst(s, i) == IF i >= Len(s) THEN <<>> ELSE SubSeq(s, i + 1, Len(s))

TakeFirst(s, i) == IF i <= 0 THEN <<>> ELSE SubSeq(s, 1, i)

\* str.rfind(c): the 0-based index of the last c, -1 when there is none
RFind(s, c) ==
    LET hits == {i \in 1..Len(s) : s[i] = c}
    IN IF hits = {} THEN -1 ELSE (CHOOSE i \in hits : \A j \in hits : j <= i) - 1

\* str.find(c)
Find(s, c) ==
    LET hits == {i \in 1..Len(s) : s[i] = c}
    IN IF hits = {} THEN -1 ELSE (CHOOSE i \in hits : \A j \in hits : i <= j) - 1

\* str.split("."): the parts between the dots, never an empty list
RECURSIVE StrSplit(_, _)
StrSplit(s, c) ==
    LET i == Find(s, c)
    IN IF i = -1 THEN <<s>>
       ELSE <<TakeFirst(s, i)>> \o StrSplit(DropFirst(s, i + 1), c)

\* str.rstrip("/")
RECURSIVE RStrip(_, _)
RStrip(s, c) ==
    IF Len(s) > 0 /\ s[Len(s)] = c THEN RStrip(TakeFirst(s, Len(s) - 1), c) ELSE s

\* os.path.split: (head, tail), tail the text after the last slash
PathSplit(p) ==
    LET i == RFind(p, "/") + 1
        head == TakeFirst(p, i)
        tail == DropFirst(p, i)
    IN IF head # <<>> /\ (\E k \in 1..Len(head) : head[k] # "/")
       THEN <<RStrip(head, "/"), tail>>
       ELSE <<head, tail>>

\* os.path.splitext: (root, ext); leading dots of the file name start no extension
SplitExt(p) ==
    LET sepIndex == RFind(p, "/")
        dotIndex == RFind(p, ".")
    IN IF dotIndex > sepIndex
          /\ \E k \in (sepIndex + 1)..(dotIndex - 1) : p[k + 1] # "."
       THEN <<TakeFirst(p, dotIndex), DropFirst(p, dotIndex)>>
       ELSE <<p, <<>>>>

GLTF == <<"g", "l", "t", "f">>

\* ------------------------------------------------------------- locations
\* A root transform: a translation and a rotation about X in degrees.
Translations == {<<0, 0, 0>>, <<5, 0, 0>>}

Angles == {0, 90, 180, 270}

Locations == [t : Translations, ax : Angles]

\* Location.__mul__ with Location((0, 0, 0), (1, 0, 0), angle): the translation of
\* the left operand stays, the rotations about X add up
MulRotX(loc, angle) == [t |-> loc.t, ax |-> (loc.ax + angle) % 360]

\* -------------------------------------------------- the external libraries
\* What a call into the geometry kernel or the toolkit can do.  A document
\* conversion returns a document or raises.  A kernel writer returns a status or
\* raises; a toolkit writer reports a failure on its error stream and returns.
\* A kernel or toolkit writer does not succeed in a directory that does not
\* exist; make_archive creates a missing directory first, and raises when it
\* cannot.
ConvOutcomes == {"ok", "raise"}

KernelWriterOutcomes(dirExists) ==
    IF dirExists THEN {"ok", "fail", "raise"} ELSE {"fail", "raise"}

ToolkitWriterOutcomes(dirExists) ==
    IF dirExists THEN {"ok", "fail"} ELSE {"fail"}

ArchiveOutcomes(dirExists) == {"ok", "raise"}

NoCall == [fn |-> "none"]

NoResult == [ret |-> "none"]

\* ------------------------------------------------------------- exportGLTF
BinaryArgs == {"None", "True", "False"}

\* assembly.py 208-216: the encoding handed to the writer
GltfBinary(path, binary) ==
    IF binary = "None"
    THEN LET path_parts == StrSplit(path, ".")
         IN IF Len(path_parts) > 0 /\ path_parts[Len(path_parts)] = GLTF
            THEN FALSE
            ELSE TRUE
    ELSE binary = "True"

ExportGLTF(path, binary, dirExists, conv, wr) ==
    LET bin == GltfBinary(path, binary)
        orig_loc == assy_loc
        rotated == MulRotX(assy_loc, -90)
        args == [fn |-> "exportGLTF", path |-> path, binary |-> binary,
                 dirExists |-> dirExists, loc_before |-> orig_loc]
    IN /\ call' = args
       /\ IF conv = "raise"
          THEN /\ assy_loc' = rotated
               /\ result' = [ret |-> "raise", at |-> "toCAF", written |-> FALSE]
          ELSE IF wr = "raise"
          THEN /\ assy_loc' = rotated
               /\ result' = [ret |-> "raise", at |-> "Perform", written |-> FALSE,
                             binary |-> bin, doc_loc |-> rotated]
          ELSE /\ assy_loc' = orig_loc
               /\ result' = [ret |-> IF wr = "ok" THEN "True" ELSE "False",
                             at |-> "return", written |-> (wr = "ok"),
                             binary |-> bin, doc_loc |-> rotated]
       /\ UNCHANGED <<static_vals, graphics_factory>>

\* --------------------------------------------------- exportAssembly (STEP)
\* **kwargs: the keys given and their values (a key not given holds a fixed filler)
StepKeys == {"write_pcurves", "precision_mode", "fuzzy_tol", "glue"}

MkKwargs(K, wp, pm) ==
    [keys |-> K,
     val |-> [write_pcurves |-> IF "write_pcurves" \in K THEN wp ELSE FALSE,
              precision_mode |-> IF "precision_mode" \in K THEN pm ELSE 0,
              fuzzy_tol |-> IF "fuzzy_tol" \in K THEN 1 ELSE 0,
              glue |-> "glue" \in K]]

PrecisionModes == {-1, 0, 1}

StepKwargs == {MkKwargs(K, wp, pm) : K \in SUBSET StepKeys, wp \in BOOLEAN,
                                     pm \in PrecisionModes}

StepModes == {"default", "fused"}

\* StepPcurves with the `not` of assembly.py 84 dropped
StepPcurvesNotDropped(kwargs) ==
    IF "write_pcurves" \in kwargs.keys /\ kwargs.val.write_pcurves THEN 0 ELSE 1

\* assembly.py 83-85
StepPcurves(kwargs) ==
    IF "write_pcurves" \in kwargs.keys /\ ~kwargs.val.write_pcurves THEN 0 ELSE 1

\* assembly.py 86
StepPrecisionMode(kwargs) ==
    IF "precision_mode" \in kwargs.keys THEN kwargs.val.precision_mode ELSE 0

\* assembly.py 94-97: toFusedCAF(assy, glue, fuzzy_tol) or toCAF(assy, True)
StepDoc(mode, kwargs) ==
    IF mode = "fused"
    THEN [kind |-> "fused",
          glue |-> IF "glue" \in kwargs.keys THEN kwargs.val.glue ELSE FALSE,
          fuzzy_tol |-> IF "fuzzy_tol" \in kwargs.keys
                        THEN <<kwargs.val.fuzzy_tol>> ELSE <<>>]
    ELSE [kind |-> "caf", glue |-> FALSE, fuzzy_tol |-> <<>>]

\* assembly.py 104-105: the two Interface_Static settings the call writes
StepStatic(kwargs) ==
    [surfacecurve |-> StepPcurves(kwargs), precision |-> StepPrecisionMode(kwargs)]

ExportAssembly(mode, kwargs, dirExists, conv, wr) ==
    LET args == [fn |-> "exportAssembly", mode |-> mode, kwargs |-> kwargs,
                 dirExists |-> dirExists, static_before |-> static_vals]
    IN /\ call' = args
       /\ IF conv = "raise"
          THEN /\ static_vals' = static_vals
               /\ result' = [ret |-> "raise", at |-> "toCAF", written |-> FALSE]
          ELSE /\ static_vals' = StepStatic(kwargs)
               /\ result' = [ret |-> CASE wr = "ok" -> "True"
                                       [] wr = "fail" -> "False"
                                       [] OTHER -> "raise",
                             at |-> IF wr = "raise" THEN "Write" ELSE "return",
                             written |-> (wr = "ok"),
                             doc |-> StepDoc(mode, kwargs)]
       /\ UNCHANGED <<assy_loc, graphics_factory>>

\* -------------------------------------------------------------- exportCAF
\* assembly.py 118-120: (folder, name, ext), or the IndexError of ext[0] on ""
CafParts(path) ==
    LET sp == PathSplit(path)
        folder == sp[1]
        fname == sp[2]
        se == SplitExt(fname)
        name == se[1]
        ext == se[2]
    IN IF Len(ext) = 0
       THEN [raised |-> TRUE, folder |-> folder, name |-> name, ext |-> ext]
       ELSE [raised |-> FALSE, folder |-> folder, name |-> name,
             ext |-> IF ext[1] = "." THEN DropFirst(ext, 1) ELSE ext]

StoreStatuses(dirExists) ==
    IF dirExists THEN {"PCDM_SS_OK", "PCDM_SS_WriteFailure"}
    ELSE {"PCDM_SS_WriteFailure"}

ExportCAF(path, dirExists, conv, status) ==
    LET parts == CafParts(path)
        args == [fn |-> "exportCAF", path |-> path, dirExists |-> dirExists]
    IN /\ call' = args
       /\ IF parts.raised
          THEN result' = [ret |-> "IndexError", at |-> "ext", written |-> FALSE,
                          saved |-> FALSE, closed |-> FALSE]
          ELSE IF conv = "raise"
          THEN result' = [ret |-> "raise", at |-> "toCAF", written |-> FALSE,
                          saved |-> FALSE, closed |-> FALSE]
          ELSE result' = [ret |-> IF status = "PCDM_SS_OK" THEN "True" ELSE "False",
                          at |-> "return", written |-> (status = "PCDM_SS_OK"),
                          saved |-> TRUE, closed |-> TRUE,
                          format |-> parts.ext, folder |-> parts.folder,
                          name |-> parts.name, status |-> status]
       /\ UNCHANGED <<assy_loc, static_vals, graphics_factory>>

\* --------------------------------------------------- exportVTKJS, exportVRML
\* assembly.py 165-178: the scene goes to a temporary directory, which exists;
\* make_archive then writes the zip at the destination or raises
ExportVTKJS(dirExists, arch) ==
    /\ call' = [fn |-> "exportVTKJS", dirExists |-> dirExists]
    /\ result' = [ret |-> IF arch = "ok" THEN "None" ELSE "raise",
                  at |-> IF arch = "ok" THEN "return" ELSE "make_archive",
                  written |-> (arch = "ok")]
    /\ UNCHANGED <<assy_loc, static_vals, graphics_factory>>

\* assembly.py 181-194: what exporter.Write() did is not looked at
ExportVRML(dirExists, wr) ==
    /\ call' = [fn |-> "exportVRML", dirExists |-> dirExists]
    /\ result' = [ret |-> "None", at |-> "return", written |-> (wr = "ok")]
    /\ UNCHANGED <<assy_loc, static_vals, graphics_factory>>

\* ---------------------------------------------------------------- exportPNG
\* The options bag: None, or a dict given as its keys and their values (a key
\* not given holds a fixed filler).
PngKeys == {"width", "height", "camera_position", "view_up_direction",
            "focal_point", "parallel_projection", "background_color",
            "clipping_range"}

MkOpts(K, pp) ==
    [isNone |-> FALSE,
     keys |-> K,
     val |-> [width |-> IF "width" \in K THEN 640 ELSE 0,
              height |-> IF "height" \in K THEN 480 ELSE 0,
              camera_position |-> IF "camera_position" \in K
                                  THEN <<1, 2, 3>> ELSE <<>>,
              view_up_direction |-> IF "view_up_direction" \in K
                                    THEN <<0, 1, 0>> ELSE <<>>,
              focal_point |-> IF "focal_point" \in K THEN <<1, 1, 1>> ELSE <<>>,
              parallel_projection |-> "parallel_projection" \in K /\ pp,
              background_color |-> IF "background_color" \in K
                                   THEN <<10, 20, 30>> ELSE <<>>,
              clipping_range |-> IF "clipping_range" \in K
                                 THEN <<1, 100>> ELSE <<>>]]

NoneOpts == [MkOpts({}, FALSE) EXCEPT !.isNone = TRUE]

PngOpts == {NoneOpts} \cup {MkOpts(K, pp) : K \in SUBSET PngKeys, pp \in BOOLEAN}

\* Python's truth value of opts: None and the empty dict are false
Truthy(opts) == ~opts.isNone /\ opts.keys # {}

\* `key in opts` for a dict
Has(opts, key) == key \in opts.keys

\* A bounding box <<xmin, xmax, ymin, ymax, zmin, zmax>>, as the kernel returns it
BBoxes == {<<0, 1, 0, 2, 0, 3>>, <<-2, 2, -1, 1, 0, 10>>}

\* assembly.py 313-321, png.py 86-88: twice the extents of the bounding box
BBoxCamera(bb) == <<(bb[2] - bb[1]) * 2, (bb[4] - bb[3]) * 2, (bb[6] - bb[5]) * 2>>

\* A leaf of the assembly tree: its colour (or none) and its location
Colors == {[r |-> 100, g |-> 0, b |-> 0, a |-> 100],
           [r |-> 0, g |-> 0, b |-> 100, a |-> 50]}

NoColor == [r |-> -1, g |-> -1, b |-> -1, a |-> -1]

LeafLocs == {[t |-> <<0, 0, 0>>, r |-> <<0, 0, 0>>],
             [t |-> <<1, 2, 3>>, r |-> <<1, 0, 2>>]}

Leaves == [col : Colors \cup {NoColor}, loc : LeafLocs]

LeafSeqs(n) == UNION {[1..k -> Leaves] : k \in 0..n}

\* What assy.traverse() yields: the sub-assemblies in order, each with the
\* leaves it holds itself (none for a node that only groups children); here a
\* lone root, or a root and one child sharing up to n leaves
LeafTrees(n) ==
    {<<ls>> : ls \in LeafSeqs(n)}
        \cup UNION {{<<TakeFirst(ls, c), DropFirst(ls, c)>> : c \in 0..Len(ls)} :
                        ls \in LeafSeqs(n)}

\* assembly.py 251-252: the leaves in the order the two nested loops visit them
RECURSIVE TraverseLeaves(_)
TraverseLeaves(subassys) ==
    IF subassys = <<>> THEN <<>>
    ELSE Head(subassys) \o TraverseLeaves(Tail(subassys))

\* Color.toTuple
ColorTuple(col) == <<col.r, col.g, col.b, col.a>>

\* LeafColor with the fallback colour of png.py's process_cq_object
LeafColorOfShapeExporter(col) ==
    IF col # NoColor THEN ColorTuple(col) ELSE <<4, 50, 67, 100>>

\* assembly.py 253
LeafColor(col) == IF col # NoColor THEN ColorTuple(col) ELSE <<10, 10, 10, 100>>

\* Degrees with the conversion forgotten: the angle in radians passed on
DegreesNotConverted(r) == r

\* math.degrees, on quarter turns
Degrees(r) == r * 90

DegreesAll(rotation) == [i \in 1..Len(rotation) |-> Degrees(rotation[i])]

\* assembly.py 280-292
AssyFaceActor(leaf) ==
    LET color == LeafColor(leaf.col)
    IN [kind |-> "face", position |-> leaf.loc.t,
        orientation |-> DegreesAll(leaf.loc.r),
        color |-> SubSeq(color, 1, 3), opacity |-> color[4]]

\* assembly.py 283-299
AssyEdgeActor(leaf) ==
    [kind |-> "edge", position |-> leaf.loc.t,
     orientation |-> DegreesAll(leaf.loc.r),
     color |-> <<100, 100, 100>>, opacity |-> 100]

\* assembly.py 247-303
AssyFaceActors(leaves) == [i \in 1..Len(leaves) |-> AssyFaceActor(leaves[i])]

AssyEdgeActors(leaves) == [i \in 1..Len(leaves) |-> AssyEdgeActor(leaves[i])]

\* assembly.py 309-321
AssyDefaultCamera(opts, bb) ==
    IF ~Truthy(opts) \/ ~Has(opts, "camera_position")
    THEN BBoxCamera(bb)
    ELSE <<20, 20, 20>>

\* assembly.py 324-351: the view the call settles on
AssyView(opts, bb) ==
    LET cam == AssyDefaultCamera(opts, bb)
    IN IF Truthy(opts)
       THEN [width |-> IF Has(opts, "width") THEN opts.val.width ELSE 800,
             height |-> IF Has(opts, "height") THEN opts.val.height ELSE 600,
             camera_position |-> IF Has(opts, "camera_position")
                                 THEN opts.val.camera_position ELSE cam,
             view_up_direction |-> IF Has(opts, "view_up_direction")
                                   THEN opts.val.view_up_direction ELSE <<0, 0, 1>>,
             focal_point |-> IF Has(opts, "focal_point")
                             THEN opts.val.focal_point ELSE <<0, 0, 0>>,
             parallel_projection |-> IF Has(opts, "parallel_projection")
                                     THEN opts.val.parallel_projection ELSE TRUE,
             background_color |-> IF Has(opts, "background_color")
                                  THEN opts.val.background_color ELSE <<50, 50, 50>>,
             clipping_range |-> IF Has(opts, "clipping_range")
                                THEN opts.val.clipping_range ELSE <<>>]
       ELSE [width |-> 800,
             height |-> 600,
             camera_position |-> cam,
             view_up_direction |-> <<0, 0, 1>>,
             focal_point |-> <<0, 0, 0>>,
             parallel_projection |-> FALSE,
             background_color |-> <<80, 80, 80>>,
             clipping_range |-> <<>>]

\* assembly.py 358-401, png.py 119-154: the window, the scene and the camera
\* that are rendered; clipping is <<>> while the code never sets a range
Rendered(view, scene, clipping, wr) ==
    [ret |-> "None", at |-> "return", written |-> (wr = "ok"),
     size |-> <<view.width, view.height>>,
     scene |-> scene,
     background |-> SubSeq(view.background_color, 1, 3),
     camera |-> [position |-> SubSeq(view.camera_position, 1, 3),
                 view_up |-> SubSeq(view.view_up_direction, 1, 3),
                 focal_point |-> SubSeq(view.focal_point, 1, 3),
                 parallel |-> view.parallel_projection,
                 clipping |-> clipping]]

\* assembly.py 390-391
AssyClipping(view) ==
    IF view.clipping_range # <<>> THEN SubSeq(view.clipping_range, 1, 2) ELSE <<>>

\* assembly.py 236-401
AssyExportPNG(subassys, bb, opts, dirExists, wr) ==
    LET view == AssyView(opts, bb)
        leaves == TraverseLeaves(subassys)
        scene == AssyFaceActors(leaves) \o AssyEdgeActors(leaves)
    IN /\ call' = [fn |-> "assembly.exportPNG", subassys |-> subassys,
                   leaves |-> leaves, bbox |-> bb,
                   opts |-> opts, dirExists |-> dirExists,
                   factory_before |-> graphics_factory]
       /\ graphics_factory' = [offscreen_only |-> 1, use_mesa |-> 1]
       /\ result' = Rendered(view, scene, AssyClipping(view), wr)
       /\ UNCHANGED <<assy_loc, static_vals>>

\* png.py 16-69
ProcessCqObject ==
    LET color == <<4, 50, 67, 100>>
        translation == <<0, 0, 0>>
        rotation == <<0, 0, 0>>
    IN <<[kind |-> "face", position |-> translation,
          orientation |-> DegreesAll(rotation),
          color |-> SubSeq(color, 1, 3), opacity |-> color[4]],
         [kind |-> "edge", position |-> translation,
          orientation |-> DegreesAll(rotation),
          color |-> <<80, 80, 80>>, opacity |-> 100]>>

\* png.py 82-88; `in` on None raises TypeError before this is used
ShapeDefaultCamera(opts, bb) ==
    IF ~Has(opts, "camera_position") THEN BBoxCamera(bb) ELSE <<20, 20, 20>>

\* png.py 92-107
ShapeView(opts, bb) ==
    LET cam == ShapeDefaultCamera(opts, bb)
    IN IF Truthy(opts)
       THEN [width |-> IF Has(opts, "width") THEN opts.val.width ELSE 800,
             height |-> IF Has(opts, "height") THEN opts.val.height ELSE 600,
             camera_position |-> IF Has(opts, "camera_position")
                                 THEN opts.val.camera_position ELSE cam,
             view_up_direction |-> IF Has(opts, "view_up_direction")
                                   THEN opts.val.view_up_direction ELSE <<0, 0, 1>>,
             focal_point |-> IF Has(opts, "focal_point")
                             THEN opts.val.focal_point ELSE <<0, 0, 0>>,
             parallel_projection |-> IF Has(opts, "parallel_projection")
                                     THEN opts.val.parallel_projection ELSE FALSE,
             background_color |-> IF Has(opts, "background_color")
                                  THEN opts.val.background_color ELSE <<50, 50, 50>>]
       ELSE [width |-> 800,
             height |-> 600,
             camera_position |-> cam,
             view_up_direction |-> <<0, 0, 1>>,
             focal_point |-> <<0, 0, 0>>,
             parallel_projection |-> FALSE,
             background_color |-> <<50, 50, 50>>]

\* png.py 72-154
ShapeExportPNG(bb, opts, dirExists, wr) ==
    /\ call' = [fn |-> "png.exportPNG", subassys |-> <<>>,
                leaves |-> <<>>, bbox |-> bb,
                opts |-> opts, dirExists |-> dirExists,
                factory_before |-> graphics_factory]
    /\ IF opts.isNone
       THEN /\ graphics_factory' = graphics_factory
            /\ result' = [ret |-> "TypeError", at |-> "camera_position",
                          written |-> FALSE]
       ELSE /\ graphics_factory' = [offscreen_only |-> 1, use_mesa |-> 1]
            /\ result' = Rendered(ShapeView(opts, bb), ProcessCqObject, <<>>, wr)
    /\ UNCHANGED <<assy_loc, static_vals>>

\* ------------------------------------------------------------ the process
\* At start no export has run: the kernel's settings and the toolkit's flags
\* hold the libraries' defaults, and the assembly has the transform it was given
Origin == [t |-> <<0, 0, 0>>, ax |-> 0]

Init ==
    /\ assy_loc \in Locations
    /\ static_vals = [surfacecurve |-> 1, precision |-> 0]
    /\ graphics_factory = [offscreen_only |-> 0, use_mesa |-> 0]
    /\ call = NoCall
    /\ result = NoResult

InitOrigin == Init /\ assy_loc = Origin

\* The inputs of the specification of all seven exporters
SomePaths == {<<"g", ".", "g", "l", "t", "f">>, <<"g", ".", "g", "l">>, <<"g">>}

SomeKwargs == {MkKwargs(K, FALSE, 1) : K \in SUBSET {"write_pcurves", "precision_mode"}}

SomeOpts == {NoneOpts, MkOpts({}, FALSE), MkOpts({"width", "camera_position"}, FALSE)}

SomeLeaves == {ls \in LeafSeqs(1) : \A i \in 1..Len(ls) : ls[i].loc.t = <<0, 0, 0>>}

SomeBBox == CHOOSE bb \in BBoxes : bb[1] = 0

GltfCall ==
    \E path \in SomePaths, binary \in {"None", "True"}, dirExists \in BOOLEAN,
       conv \in ConvOutcomes :
        \E wr \in KernelWriterOutcomes(dirExists) :
            ExportGLTF(path, binary, dirExists, conv, wr)

StepCall ==
    \E mode \in StepModes, kwargs \in SomeKwargs, dirExists \in BOOLEAN,
       conv \in ConvOutcomes :
        \E wr \in KernelWriterOutcomes(dirExists) :
            ExportAssembly(mode, kwargs, dirExists, conv, wr)

CafCall ==
    \E path \in SomePaths, dirExists \in BOOLEAN, conv \in ConvOutcomes :
        \E status \in StoreStatuses(dirExists) :
            ExportCAF(path, dirExists, conv, status)

VtkjsCall ==
    \E dirExists \in BOOLEAN :
        \E arch \in ArchiveOutcomes(dirExists) : ExportVTKJS(dirExists, arch)

VrmlCall ==
    \E dirExists \in BOOLEAN :
        \E wr \in ToolkitWriterOutcomes(dirExists) : ExportVRML(dirExists, wr)

AssyPngCall ==
    \E leaves \in SomeLeaves, opts \in SomeOpts, dirExists \in BOOLEAN :
        \E wr \in ToolkitWriterOutcomes(dirExists) :
            AssyExportPNG(<<leaves>>, SomeBBox, opts, dirExists, wr)

ShapePngCall ==
    \E opts \in SomeOpts, dirExists \in BOOLEAN :
        \E wr \in ToolkitWriterOutcomes(dirExists) :
            ShapeExportPNG(SomeBBox, opts, dirExists, wr)

Next ==
    \/ GltfCall
    \/ StepCall
    \/ CafCall
    \/ VtkjsCall
    \/ VrmlCall
    \/ AssyPngCall
    \/ ShapePngCall

Spec == Init /\ [][Next]_vars

\* Any sequence of STEP exports, over every combination of the keyword options
StepAnyCall ==
    \E mode \in StepModes, kwargs \in StepKwargs, dirExists \in BOOLEAN,
       conv \in ConvOutcomes :
        \E wr \in KernelWriterOutcomes(dirExists) :
            ExportAssembly(mode, kwargs, dirExists, conv, wr)

NextSTEP == StepAnyCall

SpecSTEP == InitOrigin /\ [][NextSTEP]_vars

\* One PNG export, over every options bag
AssyPngAnyOpts ==
    /\ call = NoCall
    /\ \E leaves \in LeafSeqs(1), bb \in BBoxes, opts \in PngOpts,
          dirExists \in BOOLEAN :
           \E wr \in ToolkitWriterOutcomes(dirExists) :
               AssyExportPNG(<<leaves>>, bb, opts, dirExists, wr)

ShapePngAnyOpts ==
    /\ call = NoCall
    /\ \E bb \in BBoxes, opts \in PngOpts, dirExists \in BOOLEAN :
           \E wr \in ToolkitWriterOutcomes(dirExists) :
               ShapeExportPNG(bb, opts, dirExists, wr)

NextPNG ==
    \/ AssyPngAnyOpts
    \/ ShapePngAnyOpts

SpecPNG == InitOrigin /\ [][NextPNG]_vars

\* One assembly-level PNG export, over every assembly of up to MaxLeaves leaves
AssyPngAnyLeaves ==
    /\ call = NoCall
    /\ \E subassys \in LeafTrees(MaxLeaves), bb \in BBoxes, opts \in SomeOpts :
           AssyExportPNG(subassys, bb, opts, TRUE, "ok")

NextScene == AssyPngAnyLeaves

SpecScene == InitOrigin /\ [][NextScene]_vars

\* One export to any path of up to MaxPathLen characters, in a directory that
\* exists and with a document conversion that succeeds
GltfAnyPath ==
    /\ call = NoCall
    /\ \E path \in Paths, binary \in BinaryArgs :
           ExportGLTF(path, binary, TRUE, "ok", "ok")

CafAnyPath ==
    /\ call = NoCall
    /\ \E path \in Paths, status \in StoreStatuses(TRUE) :
           ExportCAF(path, TRUE, "ok", status)

NextPath ==
    \/ GltfAnyPath
    \/ CafAnyPath

SpecPath == InitOrigin /\ [][NextPath]_vars

\* =================================================================== claims
PngFns == {"assembly.exportPNG", "png.exportPNG"}

\* C1: after every exportGLTF call the assembly's root transform equals the
\* root transform before the call, also when toCAF or the writer raises.
C1_RootTransformRestored ==
    call.fn = "exportGLTF" => assy_loc = call.loc_before

\* The extension of a path as the claims read it: the text from the last dot
\* of the file name on, empty when the file name holds no dot
FileExt(path) ==
    LET fname == PathSplit(path)[2]
        i == RFind(fname, ".")
    IN IF i = -1 THEN <<>> ELSE DropFirst(fname, i)

\* C2: an explicit binary flag is used unchanged; without one the encoding is
\* ASCII when the path's extension is ".gltf" and binary for any other
\* extension and for no extension.
C2_EncodingFromFlagOrExtension ==
    call.fn = "exportGLTF" /\ result.at = "return" =>
        result.binary = IF call.binary = "None"
                        THEN FileExt(call.path) # <<".">> \o GLTF
                        ELSE call.binary = "True"

\* C3: a PNG export with no options (None or an empty dict) completes and
\* renders an 800 x 600 image, at the assembly level and at the shape level.
C3_NoOptionsRenders800x600 ==
    call.fn \in PngFns /\ (call.opts.isNone \/ call.opts.keys = {}) =>
        /\ result.at = "return"
        /\ result.size = <<800, 600>>

\* What a PNG export applied for an option key
Applied(key) ==
    CASE key = "width" -> result.size[1]
      [] key = "height" -> result.size[2]
      [] key = "camera_position" -> result.camera.position
      [] key = "view_up_direction" -> result.camera.view_up
      [] key = "focal_point" -> result.camera.focal_point
      [] key = "parallel_projection" -> result.camera.parallel
      [] key = "background_color" -> result.background
      [] key = "clipping_range" -> result.camera.clipping

\* C4: in both PNG exports every recognized key present in the options bag is
\* the value applied to the render window or the camera.
C4_GivenOptionsApplied ==
    call.fn \in PngFns /\ result.at = "return" =>
        \A key \in call.opts.keys : Applied(key) = call.opts.val[key]

\* C5: in the assembly-level exportPNG the face actor of every leaf has the
\* leaf's RGB colour and opacity when the leaf has a colour and the dark gray
\* (0.1, 0.1, 0.1, 1.0) when it has none, whatever the other leaves' colours.
C5_FaceActorColour ==
    call.fn = "assembly.exportPNG" =>
        \A i \in 1..Len(call.leaves) :
            LET col == call.leaves[i].col
                actor == result.scene[i]
            IN /\ actor.kind = "face"
               /\ col # NoColor =>
                      /\ actor.color = <<col.r, col.g, col.b>>
                      /\ actor.opacity = col.a
               /\ col = NoColor =>
                      /\ actor.color = <<10, 10, 10>>
                      /\ actor.opacity = 100

\* An assembly of a coloured leaf, a leaf without colour and a leaf of another
\* colour has been rendered
C5_Witness ==
    /\ call.fn = "assembly.exportPNG"
    /\ Len(call.leaves) = 3
    /\ call.leaves[1].col = [r |-> 100, g |-> 0, b |-> 0, a |-> 100]
    /\ call.leaves[2].col = NoColor
    /\ call.leaves[3].col = [r |-> 0, g |-> 0, b |-> 100, a |-> 50]
    /\ result.scene[1].color = <<100, 0, 0>>
    /\ result.scene[2].color = <<10, 10, 10>>
    /\ result.scene[3].opacity = 50

\* The settings a STEP export's options name: precision_mode as given, 0 when
\* omitted; write_pcurves as 1 for True and 0 for False, 1 when omitted
NamedStatic(kwargs) ==
    [surfacecurve |-> IF "write_pcurves" \in kwargs.keys
                      THEN (IF kwargs.val.write_pcurves THEN 1 ELSE 0)
                      ELSE 1,
     precision |-> IF "precision_mode" \in kwargs.keys
                   THEN kwargs.val.precision_mode
                   ELSE 0]

\* C6 as stated: after each exportAssembly call write.surfacecurve.mode and
\* write.precision.mode hold the values of that call's write_pcurves and
\* precision_mode options (1 and 0 when omitted).
C6_SettingsAfterEveryCall ==
    call.fn = "exportAssembly" => static_vals = NamedStatic(call.kwargs)

\* C6 as amended: after each exportAssembly call whose document conversion
\* returned, the two settings hold the values of that call's options (1 and 0
\* when omitted), whatever mode, fuzzy_tol, glue and the earlier calls were;
\* a call whose conversion raised leaves both settings as they were; no call
\* changes the root transform or the renderer flags.
C6_SettingsAfterConvertedCall ==
    call.fn = "exportAssembly" =>
        /\ result.at # "toCAF" => static_vals = NamedStatic(call.kwargs)
        /\ result.at = "toCAF" => static_vals = call.static_before
        /\ assy_loc = Origin
        /\ graphics_factory = [offscreen_only |-> 0, use_mesa |-> 0]

\* A fused export with glue and fuzzy_tol that turns both settings away from
\* the values an earlier call had set
C6_Witness ==
    /\ call.fn = "exportAssembly"
    /\ result.ret = "True"
    /\ call.mode = "fused"
    /\ {"glue", "fuzzy_tol"} \subseteq call.kwargs.keys
    /\ call.static_before = [surfacecurve |-> 1, precision |-> 1]
    /\ static_vals = [surfacecurve |-> 0, precision |-> -1]

\* C7: an export whose destination directory does not exist, so that nothing
\* is written, returns a false flag or raises: never the result of a success.
C7_MissingDirectoryIsVisible ==
    call.fn # "none" /\ ~call.dirExists /\ ~result.written =>
        result.ret \notin {"True", "None"}

\* C8: every PNG export leaves the offscreen-only and use-Mesa flags on.
C8_FlagsOnAfterPngExport ==
    call.fn \in PngFns => graphics_factory = [offscreen_only |-> 1, use_mesa |-> 1]

\* C9: without a camera_position (opts None, empty or lacking the key) the
\* camera stands at twice the bounding box's extents; with one it stands
\* exactly there.
C9_CameraPosition ==
    call.fn \in PngFns =>
        /\ result.at = "return"
        /\ result.camera.position =
               IF ~call.opts.isNone /\ "camera_position" \in call.opts.keys
               THEN call.opts.val.camera_position
               ELSE <<2 * (call.bbox[2] - call.bbox[1]),
                      2 * (call.bbox[4] - call.bbox[3]),
                      2 * (call.bbox[6] - call.bbox[5])>>

\* C10: for every path exportCAF registers the file name's extension (without
\* its dot) as the format, requests the path's directory and extension-less
\* file name, closes the document after the save and returns true exactly
\* when the store status is OK, also for a file name without extension.
C10_CafFromEveryPath ==
    call.fn = "exportCAF" =>
        /\ result.saved
        /\ result.closed
        /\ result.format = DropFirst(FileExt(call.path), 1)
        /\ result.folder = PathSplit(call.path)[1]
        /\ result.name \o FileExt(call.path) = PathSplit(call.path)[2]
        /\ (result.ret = "True") = (result.status = "PCDM_SS_OK")

\* The number of leaves of the sub-assemblies, counted without traversing
RECURSIVE LeafCount(_)
LeafCount(subassys) ==
    IF subassys = <<>> THEN 0
    ELSE Len(Head(subassys)) + LeafCount(Tail(subassys))

\* C11: for an assembly tree with n leaves over all its sub-assemblies the
\* assembly-level exportPNG renders a scene of exactly 2n actors, n face
\* actors followed by n edge actors, one of each per leaf in traversal order,
\* both at the leaf's translation and with its rotation turned from radians
\* (quarter turns here) into degrees.
C11_TwoActorsPerLeaf ==
    call.fn = "assembly.exportPNG" =>
        LET n == LeafCount(call.subassys)
        IN /\ Len(result.scene) = 2 * n
           /\ \A i \in 1..(2 * n) :
                  result.scene[i].kind = IF i <= n THEN "face" ELSE "edge"
           /\ \A s \in 1..Len(call.subassys) :
                  \A j \in 1..Len(call.subassys[s]) :
                      LET leaf == call.subassys[s][j]
                          i == LeafCount(SubSeq(call.subassys, 1, s - 1)) + j
                          turned == <<90 * leaf.loc.r[1], 90 * leaf.loc.r[2],
                                      90 * leaf.loc.r[3]>>
                      IN /\ result.scene[i].position = leaf.loc.t
                         /\ result.scene[i].orientation = turned
                         /\ result.scene[n + i].position = leaf.loc.t
                         /\ result.scene[n + i].orientation = turned

\* A root with one leaf and a child with two, moved and rotated leaves among
\* them, has been rendered as three face actors and then three edge actors
C11_Witness ==
    /\ call.fn = "assembly.exportPNG"
    /\ Len(call.subassys) = 2
    /\ Len(call.subassys[1]) = 1
    /\ Len(call.subassys[2]) = 2
    /\ call.subassys[1][1].loc.r = <<0, 0, 0>>
    /\ call.subassys[2][2].loc.r = <<1, 0, 2>>
    /\ Len(result.scene) = 6
    /\ result.scene[3].orientation = <<90, 0, 180>>
    /\ result.scene[6].position = <<1, 2, 3>>
    /\ result.scene[4].kind = "edge"

\* What a rendering `res` applied for an option key
AppliedIn(res, key) ==
    CASE key = "width" -> res.size[1]
      [] key = "height" -> res.size[2]
      [] key = "view_up_direction" -> res.camera.view_up
      [] key = "focal_point" -> res.camera.focal_point
      [] key = "parallel_projection" -> res.camera.parallel
      [] key = "background_color" -> res.background
      [] key = "clipping_range" -> res.camera.clipping

\* What the assembly-level exportPNG renders of the same assembly with opts None
NoOptsRendering(bb) ==
    LET view == AssyView(NoneOpts, bb)
    IN Rendered(view, <<>>, AssyClipping(view), "ok")

DefaultedKeys == {"parallel_projection", "background_color", "view_up_direction",
                  "focal_point", "width", "height", "clipping_range"}

\* C12: in the assembly-level exportPNG the value used for an option the
\* caller did not supply is the same whether opts is None or empty or a
\* non-empty dict lacking the key.
C12_DefaultDependsOnKeyOnly ==
    call.fn = "assembly.exportPNG" =>
        \A key \in DefaultedKeys \ call.opts.keys :
            AppliedIn(result, key) = AppliedIn(NoOptsRendering(call.bbox), key)

=============================================================================
